---- MODULE Spec2Model ----
(***************************************************************************)
(* A model of the reconstruction pipeline of the repository:               *)
(*   - torchy/model/HGPIFuNet.py : HGPIFuNet.filter, query, calc_normal,   *)
(*     get_im_feat (the feature-query oracle);                             *)
(*   - apps/recon_mrv2.py        : gen_mesh (mesh colouring, mesh writing, *)
(*     its exception handler) and the item loop of recon;                  *)
(*   - apps/submit_eval.py       : the job-splitting loop.                 *)
(*                                                                         *)
(* Tensors keep the index structure of the code with the batch dimension   *)
(* B = 1 dropped: a [B, 3, N] tensor is a sequence of 3 rows of N entries  *)
(* (indices are 1-based here, 0-based in the code).  Coordinates and       *)
(* predictions are fixed-point numbers in tenths: 10 stands for 1.0 and    *)
(* 1 for 0.1.  Calls are modelled with labels = None, as the               *)
(* reconstruction makes them.                                              *)
(***************************************************************************)
EXTENDS Integers, Sequences, FiniteSets

VARIABLES
    \* ---- HGPIFuNet (torchy/model/HGPIFuNet.py)
    net_w,                   \* the network's weights (fixed once initialised)
    training,                \* nn.Module.training
    im_feat_list,            \* self.im_feat_list
    intermediate_preds_list, \* self.intermediate_preds_list
    preds,                   \* self.preds
    nmls,                    \* self.nmls
    preds_surface,           \* self.preds_surface
    last_op,                 \* the last method called on the network
    filt,                    \* the arguments of the last filter call
    q_in,                    \* the arguments of the last query call, and the
                             \* length of intermediate_preds_list before it
    cn_in,                   \* the arguments of the last calc_normal call
    \* ---- recon / gen_mesh (apps/recon_mrv2.py)
    recon_pc,                \* position of recon: "start", "loop", "done", "raised"
    ds_len,                  \* len(test_dataset)
    start_id,                \* recon's start_id
    end_id,                  \* recon's end_id
    item,                    \* recon's loop variable i
    processed,               \* the items gen_mesh was called for, in order
    printed,                 \* the items whose gen_mesh printed an exception
    gm,                      \* the last gen_mesh call: its inputs and what it did
    \* ---- submit_eval (apps/submit_eval.py)
    sub_pc,                  \* position of the script: "loop", "done"
    file_size,               \* file_size
    split_size,              \* split_size
    sub_i,                   \* the script's loop variable i
    jobs                     \* the (start_id, end_id) of each reconWrapperMR call

netVars == <<net_w, training, im_feat_list, intermediate_preds_list, preds, nmls,
             preds_surface, last_op, filt, q_in, cn_in>>
reconVars == <<recon_pc, ds_len, start_id, end_id, item, processed, printed, gm>>
subVars == <<sub_pc, file_size, split_size, sub_i, jobs>>
vars == <<netVars, reconVars, subVars>>

(***************************************************************************)
(* Bounds of the model.                                                    *)
(***************************************************************************)
num_stack == 2       \* opt.num_stack: hourglass stacks of the image filter
MaxPts == 2          \* points per query / calc_normal call
MaxFullChunks == 1   \* full chunks of `interval` vertices in a mesh
MaxRem == 2          \* vertices of a mesh beyond its full chunks
MaxItems == 3        \* items of the test dataset
MaxFileSize == 8     \* file_size of submit_eval
MaxSplit == 4        \* split_size of submit_eval

Images == {1, 2}     \* input images
Weights == {1, 2}    \* network weights
FdTypes == {"forward", "backward", "central"}

\* A tensor that was never assigned (None in the code).
NoTensor == <<>>

\* No calibration: the call was never made.
NoCalib == [scale |-> 0, trans |-> <<0, 0, 0>>]

\* The sequence f with its entries computed once (TLC evaluates an entry of
\* [n \in S |-> e] anew on every use).
Vec(f) == f \o <<>>

\* The [3, N] tensor of a sequence of N points <<x, y, z>>.
Tensor3(ps) == Vec([c \in 1..3 |-> Vec([n \in 1..Len(ps) |-> ps[n][c]])])

\* The point n of a [3, N] tensor.
PointAt(t, n) == <<t[1][n], t[2][n], t[3][n]>>

\* The sequences of 1..max elements of S.
SeqsUpTo(S, max) == UNION {[1..k -> S] : k \in 1..max}

(***************************************************************************)
(* HGPIFuNet                                                               *)
(***************************************************************************)
BBMin == -10         \* xyz >= -1, in tenths
BBMax == 10          \* xyz <= 1, in tenths
delta == 1           \* calc_normal's delta = 0.1, in tenths

\* World points offered to query, and the calibrations: a uniform scale and
\* a translation (the matrix [s*I | t]).  Between them the projections lie
\* inside the cube, on its faces, and beyond a face along each axis.
QueryPool == { <<12, 3, -4>>, <<5, -11, 4>>, <<10, -10, 0>> }
Calibs == { [scale |-> 1, trans |-> <<0, 0, 0>>],
            [scale |-> -1, trans |-> <<2, 0, 7>>] }

\* World points offered to calc_normal (<<1, 0, 0>> is <<0, 0, 0>> moved by
\* delta along x, so a perturbed point may coincide with another input).
WorldPool == { <<0, 0, 0>>, <<1, 0, 0>>, <<-3, 4, 11>> }

\* self.projection(points, calibs, transforms): the orthogonal projection
\* rot * p + trans of every point, without image-space transforms.
projection(points, calib) ==
    Vec([c \in 1..3 |-> Vec([n \in 1..Len(points[1]) |->
        calib.scale * points[c][n] + calib.trans[c]])])

\* self.mlp on the local feature of one projected point p (the feature map
\* sampled at its xy, and its depth encoding): a fixed function of the
\* weights, the feature map and the point, with values in (0, 1) (sigmoid),
\* here 1..9 tenths.
mlp(w, feat, p) ==
    ((w * (p[1] + 2 * p[2] + 3 * p[3]) + 3 * feat.stack + feat.img) % 9) + 1

\* self.mlp(point_local_feat) on the [3, M] tensor xyz of projected points:
\* the [M] tensor of predictions.
mlp_all(w, feat, xyz) ==
    Vec([j \in 1..Len(xyz[1]) |-> mlp(w, feat, PointAt(xyz, j))])

\* One feature map of the image filter: the image it was computed from and
\* the hourglass stack that produced it.
Feat(img, stack) == [img |-> img, stack |-> stack]

\* self.image_filter(images): HGFilter returns one feature map per stack.
image_filter(img) == [s \in 1..num_stack |-> Feat(img, s)]

\* What filter stores of the image filter's output.
filter_keep(feats, train) == IF ~train THEN <<feats[Len(feats)]>> ELSE feats

\* nn.Module.train(mode) / eval().
SetTraining(mode) ==
    /\ training' = mode
    /\ last_op' = "train"
    /\ UNCHANGED <<net_w, im_feat_list, intermediate_preds_list, preds, nmls,
                   preds_surface, filt, q_in, cn_in, reconVars, subVars>>

\* HGPIFuNet.filter(images).
filter(img) ==
    /\ im_feat_list' = filter_keep(image_filter(img), training)
    /\ filt' = [img |-> img, training |-> training]
    /\ last_op' = "filter"
    /\ UNCHANGED <<net_w, training, intermediate_preds_list, preds, nmls,
                   preds_surface, q_in, cn_in, reconVars, subVars>>

\* in_bb of query on the [3, N] tensor xyz: 1.0 for a point inside the closed
\* cube, 0.0 otherwise.
in_bb_open(xyz) ==
    Vec([n \in 1..Len(xyz[1]) |->
        IF /\ xyz[1][n] > BBMin /\ xyz[1][n] < BBMax
           /\ xyz[2][n] > BBMin /\ xyz[2][n] < BBMax
           /\ xyz[3][n] > BBMin /\ xyz[3][n] < BBMax
        THEN 1 ELSE 0])
in_bb(xyz) ==
    Vec([n \in 1..Len(xyz[1]) |->
        IF /\ xyz[1][n] >= BBMin /\ xyz[1][n] <= BBMax
           /\ xyz[2][n] >= BBMin /\ xyz[2][n] <= BBMax
           /\ xyz[3][n] >= BBMin /\ xyz[3][n] <= BBMax
        THEN 1 ELSE 0])

\* pred = in_bb * self.mlp(point_local_feat)
masked(bb, out) == Vec([n \in 1..Len(out) |-> bb[n] * out[n]])

\* self.intermediate_preds_list = [] at the start of query.
intermediate_preds_kept(old) == old
intermediate_preds_reset(old) == <<>>

\* The loop of query over self.im_feat_list: one prediction per feature map.
query_preds(w, feats, xyz) ==
    Vec([i \in 1..Len(feats) |-> masked(in_bb(xyz), mlp_all(w, feats[i], xyz))])

\* What query stores, given the list it built.  Without a stored feature map
\* the list is empty and self.intermediate_preds_list[-1] raises IndexError,
\* after the list was stored.
query_store(list) ==
    /\ intermediate_preds_list' = list
    /\ IF Len(list) = 0
       THEN /\ preds' = preds
            /\ last_op' = "query_raised"
       ELSE /\ preds' = list[Len(list)]
            /\ last_op' = "query"

\* HGPIFuNet.query(points, calibs).
query(points, calib) ==
    /\ query_store(intermediate_preds_reset(intermediate_preds_list)
                   \o query_preds(net_w, im_feat_list, projection(points, calib)))
    /\ q_in' = [points |-> points, calib |-> calib,
                before |-> Len(intermediate_preds_list)]
    /\ UNCHANGED <<net_w, training, im_feat_list, nmls, preds_surface, filt,
                   cn_in, reconVars, subVars>>

\* HGPIFuNet.get_im_feat().
get_im_feat == im_feat_list[Len(im_feat_list)]

\* points with delta added to one coordinate row (pdx, pdy, pdz).
Perturb(points, axis) ==
    Vec([c \in 1..3 |-> Vec([n \in 1..Len(points[1]) |->
        IF c = axis THEN points[c][n] + delta ELSE points[c][n]])])

\* torch.stack(ts, 3) of four [3, N] tensors: the [3, N, 4] tensor.
stack_dim3(ts) ==
    Vec([c \in 1..3 |-> Vec([n \in 1..Len(ts[1][1]) |->
        Vec([k \in 1..4 |-> ts[k][c][n]])])])

\* torch.stack(ts, 2) of four [3, N] tensors: the [3, 4, N] tensor.
stack_dim2(ts) ==
    Vec([c \in 1..3 |-> Vec([k \in 1..4 |->
        Vec([n \in 1..Len(ts[1][1]) |-> ts[k][c][n]])])])

\* t.view(B, 3, -1) of a [3, R, C] tensor: its last two dimensions flattened
\* row-major.
view_flat(t) ==
    Vec([c \in 1..3 |-> Vec([j \in 1..(Len(t[c]) * Len(t[c][1])) |->
        t[c][((j - 1) \div Len(t[c][1])) + 1][((j - 1) % Len(t[c][1])) + 1]])])

\* points_all of calc_normal: points, pdx, pdy, pdz stacked and flattened.
points_all_dim2(points) ==
    view_flat(stack_dim2(<<points, Perturb(points, 1), Perturb(points, 2),
                           Perturb(points, 3)>>))
points_all(points) ==
    view_flat(stack_dim3(<<points, Perturb(points, 1), Perturb(points, 2),
                           Perturb(points, 3)>>))

\* pred.view(B, 1, -1, 4) of the [M] tensor of predictions: [M / 4, 4].
view_4(flat) ==
    Vec([n \in 1..(Len(flat) \div 4) |-> Vec([k \in 1..4 |-> flat[4 * (n - 1) + k]])])

\* dfdx, dfdy, dfdz of calc_normal.
dfdx(pred) == Vec([n \in 1..Len(pred) |-> pred[n][2] - pred[n][1]])
dfdy(pred) == Vec([n \in 1..Len(pred) |-> pred[n][3] - pred[n][1]])
dfdz(pred) == Vec([n \in 1..Len(pred) |-> pred[n][4] - pred[n][1]])

\* -torch.cat([dfdx, dfdy, dfdz], 1): the [3, N] tensor of normals.
neg_cat(rows) ==
    Vec([c \in 1..3 |-> Vec([n \in 1..Len(rows[c]) |-> -rows[c][n]])])

\* F.normalize(nml, dim=1, eps=1e-8): every vector nml[:, n] over
\* max(its Euclidean norm, eps); an entry is kept as its numerator and the
\* squared norm of its vector.
normalize(nml) ==
    Vec([c \in 1..3 |-> Vec([n \in 1..Len(nml[1]) |->
        [num |-> nml[c][n],
         den2 |-> nml[1][n] * nml[1][n] + nml[2][n] * nml[2][n]
                  + nml[3][n] * nml[3][n]]])])

\* self.preds_surface = pred[:,:,:,0]
surface(pred) == Vec([n \in 1..Len(pred) |-> pred[n][1]])

\* The pred of calc_normal: the MLP on the features of the last stack at the
\* projection of points_all, viewed as [N, 4].
normal_pred(w, feat, points, calib) ==
    view_4(mlp_all(w, feat, projection(points_all(points), calib)))

\* What calc_normal stores, given pred.
normal_store(pred) ==
    /\ nmls' = normalize(neg_cat(<<dfdx(pred), dfdy(pred), dfdz(pred)>>))
    /\ preds_surface' = surface(pred)

\* HGPIFuNet.calc_normal(points, calibs, fd_type=fd_type).  Without a stored
\* feature map self.im_feat_list[-1] raises IndexError before anything is
\* stored.
calc_normal(points, calib, fd_type) ==
    IF Len(im_feat_list) = 0
    THEN /\ last_op' = "calc_normal_raised"
         /\ UNCHANGED <<net_w, training, im_feat_list, intermediate_preds_list,
                        preds, nmls, preds_surface, filt, q_in, cn_in,
                        reconVars, subVars>>
    ELSE /\ normal_store(normal_pred(net_w, im_feat_list[Len(im_feat_list)],
                                     points, calib))
         /\ cn_in' = [points |-> points, calib |-> calib, fd_type |-> fd_type]
         /\ last_op' = "calc_normal"
         /\ UNCHANGED <<net_w, training, im_feat_list, intermediate_preds_list,
                        preds, filt, q_in, reconVars, subVars>>

InitNet ==
    /\ net_w \in Weights
    /\ training = TRUE
    /\ im_feat_list = <<>>
    /\ intermediate_preds_list = <<>>
    /\ preds = NoTensor
    /\ nmls = NoTensor
    /\ preds_surface = NoTensor
    /\ last_op = "init"
    /\ filt = [img |-> 0, training |-> TRUE]
    /\ q_in = [points |-> NoTensor, calib |-> NoCalib, before |-> 0]
    /\ cn_in = [points |-> NoTensor, calib |-> NoCalib, fd_type |-> "forward"]


(***************************************************************************)
(* apps/recon_mrv2.py: gen_mesh and the item loop of recon                 *)
(***************************************************************************)
interval == 100000   \* gen_mesh: interval = 100000

\* Numbers of vertices reconstruction may return: around the multiples of
\* interval, at least one vertex.
VertCounts == { q * interval + r : q \in 0..MaxFullChunks, r \in 0..MaxRem } \ {0}

Min(a, b) == IF a < b THEN a ELSE b
Max(a, b) == IF a > b THEN a ELSE b

\* Python's a[left:right] on a sequence of length len: the indices lo..hi-1
\* (0-based).  A negative bound counts from the end; bounds are clamped.
PySlice(len, left, right) ==
    LET norm(i) == IF i < 0 THEN Max(i + len, 0) ELSE Min(i, len)
    IN  [lo |-> norm(left), hi |-> Max(norm(right), norm(left))]

\* The slice bounds of chunk i of the colouring loop over n vertices.
chunk_left(i) == i * interval
chunk_right(i, n) == IF i = n \div interval THEN -1 ELSE (i + 1) * interval

\* The calls gen_mesh makes for a mesh of n vertices, in order, each with
\* whether it is made inside the try block.
Stage(name, in_try, chunk) == [name |-> name, in_try |-> in_try, chunk |-> chunk]
Stages_late_try(n) ==
    << Stage("filter_global", FALSE, -1), Stage("filter_local", FALSE, -1),
       Stage("imwrite", TRUE, -1), Stage("reconstruction", FALSE, -1) >>
    \o [j \in 1..(n \div interval + 1) |-> Stage("calc_normal", TRUE, j - 1)]
    \o << Stage("save_obj_mesh_with_color", TRUE, -1) >>
Stages(n) ==
    << Stage("filter_global", FALSE, -1), Stage("filter_local", FALSE, -1),
       Stage("imwrite", TRUE, -1), Stage("reconstruction", TRUE, -1) >>
    \o [j \in 1..(n \div interval + 1) |-> Stage("calc_normal", TRUE, j - 1)]
    \o << Stage("save_obj_mesh_with_color", TRUE, -1) >>

\* Whether chunk i of the colouring loop over n vertices is an empty slice.
\* calc_normal raises on it: points_all.view(B, 3, -1) of a tensor of 0
\* elements is a RuntimeError (the size -1 stands for is ambiguous).
empty_chunk(n, i) ==
    PySlice(n, chunk_left(i), chunk_right(i, n)).hi
        = PySlice(n, chunk_left(i), chunk_right(i, n)).lo

\* The calls among stages that raise: call number failAt, where the
\* environment fails (0: nowhere), and calc_normal on an empty chunk.
raising(stages, n, failAt) ==
    { j \in 1..Len(stages) :
        \/ j = failAt
        \/ stages[j].name = "calc_normal" /\ empty_chunk(n, stages[j].chunk) }

\* The first call that raises, 0 if none does.
first_raise(stages, n, failAt) ==
    IF raising(stages, n, failAt) = {} THEN 0
    ELSE CHOOSE j \in raising(stages, n, failAt) :
            \A r \in raising(stages, n, failAt) : j <= r

\* The run of gen_mesh in which call number at raises (0: none): calls: the
\* calls made; raised: the exception left gen_mesh; caught: it was caught and
\* printed; color: the slice of color each completed chunk assigned, in order.
gen_mesh_run(stages, n, at) ==
    [n |-> n,
     failAt |-> at,
     calls |-> [j \in 1..(IF at = 0 THEN Len(stages) ELSE at) |-> stages[j].name],
     raised |-> at > 0 /\ ~stages[at].in_try,
     caught |-> at > 0 /\ stages[at].in_try,
     color |-> [j \in 1..Cardinality({ r \in 1..Len(stages) :
                                        /\ stages[r].name = "calc_normal"
                                        /\ (at = 0 \/ r < at) }) |->
                  PySlice(n, chunk_left(j - 1), chunk_right(j - 1, n))]]

\* gen_mesh on an item whose reconstruction has n vertices, where the
\* environment makes call number failAt raise (0: none).
gen_mesh(n, failAt) ==
    gen_mesh_run(Stages(n), n, first_raise(Stages(n), n, failAt))

NoGenMesh == [n |-> 0, failAt |-> 0, calls |-> <<>>, raised |-> FALSE,
              caught |-> FALSE, color |-> <<>>]

\* recon up to its loop: start_id and end_id from the options, negative
\* values replaced.
ReconStart(len, opt_start, opt_end) ==
    /\ recon_pc = "start"
    /\ ds_len' = len
    /\ start_id' = IF opt_start < 0 THEN 0 ELSE opt_start
    /\ end_id' = IF opt_end < 0 THEN len ELSE opt_end
    /\ item' = IF opt_start < 0 THEN 0 ELSE opt_start
    /\ recon_pc' = "loop"
    /\ UNCHANGED <<processed, printed, gm, netVars, subVars>>

\* One round of recon's loop: gen_mesh on item i.
ReconItem(n, failAt) ==
    /\ recon_pc = "loop"
    /\ item < end_id
    /\ item < ds_len
    /\ LET r == gen_mesh(n, failAt)
       IN  /\ gm' = r
           /\ processed' = Append(processed, item)
           /\ printed' = IF r.caught THEN Append(printed, item) ELSE printed
           /\ IF r.raised
              THEN recon_pc' = "raised" /\ item' = item
              ELSE recon_pc' = "loop" /\ item' = item + 1
    /\ UNCHANGED <<ds_len, start_id, end_id, netVars, subVars>>

\* The loop ends: the range is exhausted, or i >= len(test_dataset).
ReconEnd ==
    /\ recon_pc = "loop"
    /\ (item >= end_id \/ item >= ds_len)
    /\ recon_pc' = "done"
    /\ UNCHANGED <<ds_len, start_id, end_id, item, processed, printed, gm,
                   netVars, subVars>>

InitRecon ==
    /\ recon_pc = "start"
    /\ ds_len = 0
    /\ start_id = 0
    /\ end_id = 0
    /\ item = 0
    /\ processed = <<>>
    /\ printed = <<>>
    /\ gm = NoGenMesh

(***************************************************************************)
(* apps/submit_eval.py                                                     *)
(***************************************************************************)
\* interval = file_size // split_size
job_interval == file_size \div split_size

\* range(split_size+1): the rounds of the loop.
n_rounds == split_size + 1

\* file_size and split_size are set.
SubmitStart(fs, ss) ==
    /\ sub_pc = "start"
    /\ file_size' = fs
    /\ split_size' = ss
    /\ sub_i' = 0
    /\ sub_pc' = "loop"
    /\ UNCHANGED <<jobs, netVars, reconVars>>

\* One round of the loop: reconWrapperMR(cmd) with --start_id and --end_id.
Launch ==
    /\ sub_pc = "loop"
    /\ sub_i < n_rounds
    /\ jobs' = Append(jobs, IF split_size < 2
                            THEN [start_id |-> -1, end_id |-> -1]
                            ELSE [start_id |-> sub_i * job_interval,
                                  end_id |-> (sub_i + 1) * job_interval])
    /\ sub_i' = sub_i + 1
    /\ UNCHANGED <<sub_pc, file_size, split_size, netVars, reconVars>>

\* The loop is over.
SubmitEnd ==
    /\ sub_pc = "loop"
    /\ sub_i >= n_rounds
    /\ sub_pc' = "done"
    /\ UNCHANGED <<file_size, split_size, sub_i, jobs, netVars, reconVars>>

InitSubmit ==
    /\ sub_pc = "start"
    /\ file_size = 1
    /\ split_size = 1
    /\ sub_i = 0
    /\ jobs = <<>>

(***************************************************************************)
(* Specifications                                                          *)
(***************************************************************************)
Init == InitNet /\ InitRecon /\ InitSubmit

\* filter and query, in training and in evaluation mode.
NextQuery ==
    \/ \E mode \in BOOLEAN : SetTraining(mode)
    \/ \E img \in Images : filter(img)
    \/ \E ps \in SeqsUpTo(QueryPool, MaxPts) : \E calib \in Calibs :
         query(Tensor3(ps), calib)

SpecQuery == Init /\ [][NextQuery]_vars

\* filter and calc_normal.
NextNormal ==
    \/ \E img \in Images : filter(img)
    \/ \E ps \in SeqsUpTo(WorldPool, MaxPts) : \E calib \in Calibs :
         \E fd_type \in FdTypes : calc_normal(Tensor3(ps), calib, fd_type)

SpecNormal == Init /\ [][NextNormal]_vars

\* recon: gen_mesh on each item of the range.
NextRecon ==
    \/ \E len \in 1..MaxItems : \E s \in -1..MaxItems : \E e \in -1..(MaxItems + 1) :
         ReconStart(len, s, e)
    \/ \E n \in VertCounts : \E failAt \in 0..Len(Stages(n)) : ReconItem(n, failAt)
    \/ ReconEnd

SpecRecon == Init /\ [][NextRecon]_vars

\* submit_eval.
NextSubmit ==
    \/ \E fs \in 1..MaxFileSize : \E ss \in 1..MaxSplit : SubmitStart(fs, ss)
    \/ Launch
    \/ SubmitEnd

SpecSubmit == Init /\ [][NextSubmit]_vars

(***************************************************************************)
(* Properties                                                              *)
(***************************************************************************)
\* The projection of one world point.
Project1(p, calib) == PointAt(projection(Tensor3(<<p>>), calib), 1)

\* C1: when gen_mesh writes a mesh of N >= 1 vertices, the slices the
\* colouring loop assigned are pairwise disjoint and every vertex index
\* 0..N-1 lies in one of them, so no vertex keeps the initial zero colour.
C1_EveryVertexColoured ==
    (gm.n >= 1 /\ gm.failAt = 0 /\ Len(gm.calls) > 0) =>
        /\ \A a, b \in 1..Len(gm.color) :
              a # b => (gm.color[a].hi <= gm.color[b].lo
                        \/ gm.color[b].hi <= gm.color[a].lo)
        /\ \A v \in 0..(gm.n - 1) :
              \E a \in 1..Len(gm.color) : gm.color[a].lo <= v /\ v < gm.color[a].hi

\* C2: after query, a point whose projection has a component below -1 or
\* above 1 has prediction 0 in every entry of intermediate_preds_list and in
\* preds; a point with all components in [-1, 1] has the MLP's output.
C2_QueryMasksOutside ==
    last_op = "query" =>
        LET xyz == projection(q_in.points, q_in.calib)
            last == Len(intermediate_preds_list)
        IN  \A n \in 1..Len(xyz[1]) :
              LET outside == \E c \in 1..3 : xyz[c][n] < BBMin \/ xyz[c][n] > BBMax
                  out(i) == mlp(net_w, im_feat_list[i], PointAt(xyz, n))
              IN  /\ outside =>
                        /\ \A i \in 1..last : intermediate_preds_list[i][n] = 0
                        /\ preds[n] = 0
                  /\ ~outside =>
                        /\ \A i \in 1..last : intermediate_preds_list[i][n] = out(i)
                        /\ preds[n] = out(last)

\* A query in training mode stored an outside point and an inside point, the
\* latter on a face of the cube.
C2_Witness ==
    /\ last_op = "query"
    /\ Len(intermediate_preds_list) = num_stack
    /\ LET xyz == projection(q_in.points, q_in.calib)
       IN  /\ \E n \in 1..Len(xyz[1]) :
                /\ \E c \in 1..3 : xyz[c][n] > BBMax
                /\ preds[n] = 0
           /\ \E n \in 1..Len(xyz[1]) :
                /\ \A c \in 1..3 : xyz[c][n] >= BBMin /\ xyz[c][n] <= BBMax
                /\ \E c \in 1..3 : xyz[c][n] = BBMax
                /\ preds[n] > 0

\* C3: after calc_normal, whatever fd_type was passed, the un-normalised
\* normal of point n is -(f(p_n + delta e_x) - f(p_n), f(p_n + delta e_y) -
\* f(p_n), f(p_n + delta e_z) - f(p_n)) and preds_surface[n] = f(p_n), f
\* being the network on the last stack's features: only point n's own four
\* predictions enter its normal.
C3_ForwardDifference ==
    last_op = "calc_normal" =>
        LET f(p) == mlp(net_w, get_im_feat, Project1(p, cn_in.calib))
        IN  \A n \in 1..Len(cn_in.points[1]) :
              LET p == PointAt(cn_in.points, n)
                  d == << f(<<p[1] + delta, p[2], p[3]>>) - f(p),
                          f(<<p[1], p[2] + delta, p[3]>>) - f(p),
                          f(<<p[1], p[2], p[3] + delta>>) - f(p) >>
              IN  /\ \A c \in 1..3 : nmls[c][n].num = -d[c]
                  /\ \A c \in 1..3 :
                        nmls[c][n].den2 = d[1] * d[1] + d[2] * d[2] + d[3] * d[3]
                  /\ preds_surface[n] = f(p)

\* calc_normal was called with fd_type "central" on two different points whose
\* normals differ and are not zero.
C3_Witness ==
    /\ last_op = "calc_normal"
    /\ cn_in.fd_type = "central"
    /\ Len(cn_in.points[1]) = 2
    /\ PointAt(cn_in.points, 1) # PointAt(cn_in.points, 2)
    /\ nmls[1][1].den2 > 0
    /\ \E c \in 1..3 : nmls[c][1].num # nmls[c][2].num

\* C4: when the script is over, reconWrapperMR was invoked exactly split_size
\* times.
C4_LaunchesSplitSizeJobs ==
    sub_pc = "done" => Len(jobs) = split_size

\* C5: after a query that follows a filter, intermediate_preds_list has one
\* entry per entry of im_feat_list, each over the points of this query,
\* preds is its last entry and get_im_feat is the last stack's feature of the
\* filtered image; the list has one entry if filter ran in evaluation mode
\* and one per hourglass stack if it ran in training mode.
C5_OneEntryPerFeature ==
    last_op = "query" =>
        /\ Len(intermediate_preds_list) = Len(im_feat_list)
        /\ \A i \in 1..Len(intermediate_preds_list) :
              Len(intermediate_preds_list[i]) = Len(q_in.points[1])
        /\ preds = intermediate_preds_list[Len(intermediate_preds_list)]
        /\ get_im_feat = Feat(filt.img, num_stack)
        /\ ~filt.training => Len(intermediate_preds_list) = 1
        /\ filt.training => Len(intermediate_preds_list) = num_stack

\* A query in evaluation mode that follows a query which had stored one
\* prediction per stack.
C5_Witness ==
    /\ last_op = "query"
    /\ q_in.before = num_stack
    /\ ~filt.training
    /\ Len(intermediate_preds_list) = 1

\* C6: with split_size >= 2, when the script is over the ranges
\* [start_id, end_id) of the launched jobs are pairwise disjoint and every
\* input index 0..file_size-1 lies in one of them.
C6_RangesPartitionInputs ==
    (sub_pc = "done" /\ split_size >= 2) =>
        /\ \A a, b \in 1..Len(jobs) :
              a # b => (jobs[a].end_id <= jobs[b].start_id
                        \/ jobs[b].end_id <= jobs[a].start_id)
        /\ \A idx \in 0..(file_size - 1) :
              \E a \in 1..Len(jobs) : jobs[a].start_id <= idx /\ idx < jobs[a].end_id

\* The calls of the last gen_mesh named name.
CallsOf(name) == { j \in 1..Len(gm.calls) : gm.calls[j] = name }

\* C7: an exception raised by saving the image, by reconstruction, by the
\* colouring of a chunk or by writing the mesh is caught and printed and does
\* not leave gen_mesh, and recon goes on with the next item; the mesh is
\* written at most once per gen_mesh call, as its last call, after
\* reconstruction and the colouring of every chunk returned.
C7_ExceptionsCaught ==
    /\ (gm.failAt > 0 /\ gm.calls[gm.failAt] \in
            {"imwrite", "reconstruction", "calc_normal", "save_obj_mesh_with_color"}) =>
          /\ gm.caught
          /\ ~gm.raised
          /\ recon_pc # "raised"
          /\ printed # <<>> /\ printed[Len(printed)] = processed[Len(processed)]
    /\ recon_pc \in {"loop", "done"} =>
          processed = [j \in 1..(item - start_id) |-> start_id + j - 1]
    /\ recon_pc = "done" => (item >= end_id \/ item >= ds_len)
    /\ Cardinality(CallsOf("save_obj_mesh_with_color")) <= 1
    /\ \A j \in CallsOf("save_obj_mesh_with_color") :
          /\ j = Len(gm.calls)
          /\ \E r \in 1..(j - 1) : gm.calls[r] = "reconstruction"
          /\ Cardinality(CallsOf("calc_normal")) = gm.n \div interval + 1

\* recon is over; its first item raised in reconstruction, which was printed,
\* and a later item was written, after two chunks were coloured.
C7_Witness ==
    /\ recon_pc = "done"
    /\ Len(processed) >= 2
    /\ printed # <<>> /\ printed[1] = processed[1]
    /\ gm.failAt = 0
    /\ Cardinality(CallsOf("calc_normal")) = 2
    /\ CallsOf("save_obj_mesh_with_color") # {}

====
